---- MODULE Spec2Model ----
(***************************************************************************)
(* Storefront cart / checkout of koraytemur/hirdavat2 (frontend).          *)
(*                                                                         *)
(* The global store (src/store/useStore) holds the cart ledger and the     *)
(* applied discount; the screens (tabs, product detail, checkout, success) *)
(* call its operations from their press handlers.  The two asynchronous    *)
(* handlers of the checkout screen (handleApplyDiscount, handlePlaceOrder) *)
(* are modelled as calls in flight whose continuation runs when the        *)
(* external API resolves or rejects.                                       *)
(*                                                                         *)
(* Money is in cents.  Texts are sequences of characters.                  *)
(***************************************************************************)
EXTENDS Integers, Sequences, FiniteSets, TLC

VARIABLES
    cart,             \* store: sequence of lines [product, quantity]
    appliedDiscount,  \* store: NoDiscount (null) or a Discount
    screen,           \* top route: "tabs" | "product" | "checkout" | "success"
    id,               \* ProductDetailScreen: route parameter
    product,          \* ProductDetailScreen: NoProduct while loading, else the Product
    quantity,         \* ProductDetailScreen: selected quantity
    loading,          \* CheckoutScreen: order submission busy flag
    applyingDiscount, \* CheckoutScreen: discount validation busy flag
    discountCode,     \* CheckoutScreen: text of the discount input
    selectedPayment,  \* CheckoutScreen: id of the selected payment method
    customer,         \* CheckoutScreen: CustomerInfo form
    validations,      \* validateDiscount calls in flight
    orders,           \* handlePlaceOrder invocations in flight
    isLoading,        \* auth store: the stored session is being loaded
    isAuthenticated,  \* auth store: a user is logged in
    isAdmin,          \* auth store: the user has the admin role
    rendered,         \* AdminLayout: what its last render returned
    stack,            \* AdminLayout: the routes of its Stack navigator
    effect,           \* AdminLayout: its effect is scheduled to run
    categories,       \* CategoriesScreen: the category list shown
    products,         \* CategoriesScreen: the product list shown
    categoriesLoading,\* CategoriesScreen: its loading flag
    refreshing,       \* CategoriesScreen: pull-to-refresh flag
    searchQuery,      \* CategoriesScreen: text of the search input
    selectedCategory, \* CategoriesScreen: id of the selected category or Null
    fetches,          \* CategoriesScreen: loadData calls, pending or the latest
    event             \* what the last step did: handler, arguments, alert

vars == <<cart, appliedDiscount, screen, id, product, quantity, loading,
          applyingDiscount, discountCode, selectedPayment, customer,
          validations, orders, isLoading, isAuthenticated, isAdmin, rendered,
          stack, effect, categories, products, categoriesLoading, refreshing,
          searchQuery, selectedCategory, fetches, event>>

storeVars == <<cart, appliedDiscount>>
detailVars == <<id, product, quantity>>
checkoutVars == <<loading, applyingDiscount, discountCode, selectedPayment, customer>>
callVars == <<validations, orders>>
authVars == <<isLoading, isAuthenticated, isAdmin>>
adminVars == <<authVars, rendered, stack, effect>>
categoriesVars == <<categories, products, categoriesLoading, refreshing,
                    searchQuery, selectedCategory, fetches>>
shopVars == <<storeVars, detailVars, checkoutVars, callVars>>

-----------------------------------------------------------------------------
(* Bounds *)

\* cap on the sum of the quantities in the cart (the ledger itself has none)
MaxItems == 5
\* cap on the calls in flight at once (validations and orders together)
MaxPending == 2
\* the checkout screen is opened only with at most this many items in the cart
MaxCheckoutItems == 1
\* cap on the loadData calls of the categories screen pending at once
MaxFetches == 2

\* null, for an identifier
Null == "null"

\* appliedDiscount === null
NoDiscount ==
    [code |-> Null, discount_type |-> Null, discount_value |-> 0, min_order_amount |-> 0]

\* product === null
NoProduct == [id |-> Null, price |-> 0, stock |-> 0]

-----------------------------------------------------------------------------
(* Catalog, discounts, texts *)

ProductIds == {"p1", "p2"}

\* a product that is out of stock
OutOfStockIds == {"p0"}

\* Products as the catalog API returns them (price in cents).
Catalog ==
    [pid \in ProductIds \cup OutOfStockIds |->
        CASE pid = "p0" -> [id |-> "p0", price |-> 700, stock |-> 0]
          [] pid = "p1" -> [id |-> "p1", price |-> 1000, stock |-> 3]
          [] pid = "p2" -> [id |-> "p2", price |-> 550, stock |-> 1]]

\* Discounts the validation API can return.
Discounts ==
    { [code |-> "SAVE10", discount_type |-> "percentage", discount_value |-> 10,
       min_order_amount |-> 0],
      [code |-> "FIX5", discount_type |-> "fixed", discount_value |-> 500,
       min_order_amount |-> 1000] }

\* Texts typed into the discount input.
CodeTexts == { <<>>, <<" ">>, <<"S">> }

\* Texts typed into the customer form.
FieldTexts == { <<>>, <<"x">> }
EmailTexts == { <<>>, <<"a">>, <<"a", "@", "b">> }

CustomerFields == {"name", "email", "phone", "address", "city", "postal_code"}

TextsOf(f) == IF f = "email" THEN EmailTexts ELSE FieldTexts

PaymentChoices == {"mock", "card"}

\* String.prototype.trim on a text
RECURSIVE TrimLeft(_)
TrimLeft(s) == IF s # <<>> /\ Head(s) = " " THEN TrimLeft(Tail(s)) ELSE s

RECURSIVE TrimRight(_)
TrimRight(s) ==
    IF s # <<>> /\ s[Len(s)] = " " THEN TrimRight(SubSeq(s, 1, Len(s) - 1)) ELSE s

trim(s) == TrimRight(TrimLeft(s))

\* String.prototype.includes for a single character
includes(s, ch) == \E i \in 1..Len(s) : s[i] = ch

-----------------------------------------------------------------------------
(* Store operations (src/store/useStore) *)

HasLine(c, pid) == \E i \in 1..Len(c) : c[i].product.id = pid

RECURSIVE Filter(_, _)
Filter(c, pid) ==
    IF c = <<>> THEN <<>>
    ELSE IF Head(c).product.id = pid THEN Filter(Tail(c), pid)
         ELSE <<Head(c)>> \o Filter(Tail(c), pid)

\* mutant: re-adding a product replaces the line's product by the one passed
addToCart_refreshesProduct(c, p, q) ==
    IF HasLine(c, p.id)
    THEN [i \in 1..Len(c) |->
            IF c[i].product.id = p.id
            THEN [product |-> p, quantity |-> c[i].quantity + q]
            ELSE c[i]]
    ELSE Append(c, [product |-> p, quantity |-> q])

addToCart(c, p, q) ==
    IF HasLine(c, p.id)
    THEN [i \in 1..Len(c) |->
            IF c[i].product.id = p.id
            THEN [c[i] EXCEPT !.quantity = c[i].quantity + q]
            ELSE c[i]]
    ELSE Append(c, [product |-> p, quantity |-> q])

\* mutant: the line is cut out by its index, and the index -1 of an absent
\* product cuts out the last line
removeFromCart_splice(c, pid) ==
    IF HasLine(c, pid) \/ c = <<>> THEN Filter(c, pid) ELSE SubSeq(c, 1, Len(c) - 1)

removeFromCart(c, pid) == Filter(c, pid)

updateQuantity(c, pid, n) ==
    IF n <= 0
    THEN removeFromCart(c, pid)
    ELSE [i \in 1..Len(c) |->
            IF c[i].product.id = pid THEN [c[i] EXCEPT !.quantity = n] ELSE c[i]]

RECURSIVE SumQuantities(_)
SumQuantities(c) ==
    IF c = <<>> THEN 0 ELSE Head(c).quantity + SumQuantities(Tail(c))

getCartItemCount(c) == SumQuantities(c)

\* mutant: the badge counts the lines, not their quantities
RECURSIVE Reduce_countsLines(_, _)
Reduce_countsLines(c, sum) ==
    IF c = <<>> THEN sum ELSE Reduce_countsLines(Tail(c), sum + 1)

\* TabLayout badge: cart.reduce((sum, item) => sum + item.quantity, 0)
RECURSIVE Reduce(_, _)
Reduce(c, sum) ==
    IF c = <<>> THEN sum ELSE Reduce(Tail(c), sum + Head(c).quantity)

cartItemCount == Reduce(cart, 0)

RECURSIVE SumPrices(_)
SumPrices(c) ==
    IF c = <<>> THEN 0
    ELSE Head(c).product.price * Head(c).quantity + SumPrices(Tail(c))

\* getCartTotal().subtotal, in cents
subtotal == SumPrices(cart)

Max(a, b) == IF a >= b THEN a ELSE b
Min(a, b) == IF a <= b THEN a ELSE b

\* the tax rate, in percent
TAX_RATE == 21

\* Amounts of the price breakdown are in hundredths of a cent, so that
\* subtotal * 21 / 100 and subtotal * value / 100 are exact: prices, fixed
\* discount values and minimum order amounts are in cents.

\* mutant: a fixed discount is taken in full, whatever the subtotal
getCartTotal_uncapped(c, d) ==
    LET tax == SumPrices(c) * TAX_RATE
        discountAmount ==
            IF d # NoDiscount /\ SumPrices(c) >= d.min_order_amount
            THEN IF d.discount_type = "percentage"
                 THEN SumPrices(c) * d.discount_value
                 ELSE d.discount_value * 100
            ELSE 0
    IN  [subtotal |-> SumPrices(c) * 100, tax |-> tax,
         discountAmount |-> discountAmount,
         total |-> Max(0, SumPrices(c) * 100 + tax - discountAmount)]

\* mutant: a percentage discount is taken from subtotal plus tax
getCartTotal_percentOfGross(c, d) ==
    LET tax == SumPrices(c) * TAX_RATE
        discountAmount ==
            IF d # NoDiscount /\ SumPrices(c) >= d.min_order_amount
            THEN IF d.discount_type = "percentage"
                 THEN ((SumPrices(c) * 100 + tax) * d.discount_value) \div 100
                 ELSE Min(d.discount_value, SumPrices(c)) * 100
            ELSE 0
    IN  [subtotal |-> SumPrices(c) * 100, tax |-> tax,
         discountAmount |-> discountAmount,
         total |-> Max(0, SumPrices(c) * 100 + tax - discountAmount)]

\* mutant: the minimum order amount is not looked at
getCartTotal_ignoresMinimum(c, d) ==
    LET tax == SumPrices(c) * TAX_RATE
        discountAmount ==
            IF d # NoDiscount
            THEN IF d.discount_type = "percentage"
                 THEN SumPrices(c) * d.discount_value
                 ELSE Min(d.discount_value, SumPrices(c)) * 100
            ELSE 0
    IN  [subtotal |-> SumPrices(c) * 100, tax |-> tax,
         discountAmount |-> discountAmount,
         total |-> Max(0, SumPrices(c) * 100 + tax - discountAmount)]

\* mutant: the total is not floored at 0
getCartTotal_noFloor(c, d) ==
    LET tax == SumPrices(c) * TAX_RATE
        discountAmount ==
            IF d # NoDiscount /\ SumPrices(c) >= d.min_order_amount
            THEN IF d.discount_type = "percentage"
                 THEN SumPrices(c) * d.discount_value
                 ELSE Min(d.discount_value, SumPrices(c)) * 100
            ELSE 0
    IN  [subtotal |-> SumPrices(c) * 100, tax |-> tax,
         discountAmount |-> discountAmount,
         total |-> SumPrices(c) * 100 + tax - discountAmount]

\* getCartTotal() of the store, the pricing engine: subtotal, tax = subtotal *
\* TAX_RATE, the discount amount of the applied discount when the subtotal
\* reaches its minimum order amount (percentage: subtotal * value / 100,
\* fixed: min(value, subtotal)), total = subtotal + tax - discount amount
\* floored at 0; nothing is rounded on the way
getCartTotal(c, d) ==
    LET tax == SumPrices(c) * TAX_RATE
        discountAmount ==
            IF d # NoDiscount /\ SumPrices(c) >= d.min_order_amount
            THEN IF d.discount_type = "percentage"
                 THEN SumPrices(c) * d.discount_value
                 ELSE Min(d.discount_value, SumPrices(c)) * 100
            ELSE 0
    IN  [subtotal |-> SumPrices(c) * 100, tax |-> tax,
         discountAmount |-> discountAmount,
         total |-> Max(0, SumPrices(c) * 100 + tax - discountAmount)]

\* mutant: the display drops the digits after the second
toFixed_truncates(x) == x \div 100

\* Number.prototype.toFixed(2) of a non-negative amount: the nearest number of
\* cents, the larger one when two are equally near
toFixed(x) == (x + 50) \div 100

-----------------------------------------------------------------------------
(* Events: what a step did *)

NoAlert == "none"

\* The handler run by the step (op), the product id and number it passed to the
\* store (pid, n), the text of the Alert.alert it raised, and the request it sent
\* to the API (data).  clearCart and orderPlaced carry the code of the discount
\* and the item count they cleared, orderFailed the call that rejected, and
\* discountApplied the code of the new discount and, in data, the old one.
Ev(op, pid, n, alert) ==
    [op |-> op, pid |-> pid, n |-> n, alert |-> alert, data |-> <<>>]

\* the event of a step that only navigates, edits an input or awaits
Quiet == Ev("none", Null, 0, NoAlert)

\* error.response?.data?.detail of a rejected call: absent, or the server's text
ErrorDetails == {Null, "detail"}

\* error.response?.data?.detail || fallback
AlertText(detail, fallback) == IF detail = Null THEN fallback ELSE detail

\* the event of a handler that called the external API with request
Sent(op, request) ==
    [op |-> op, pid |-> Null, n |-> 0, alert |-> NoAlert, data |-> request]

-----------------------------------------------------------------------------
(* Initial state *)

InitialCustomer == [f \in CustomerFields |-> <<>>]

CheckoutInitial ==
    /\ loading' = FALSE
    /\ applyingDiscount' = FALSE
    /\ discountCode' = <<>>
    /\ selectedPayment' = "mock"
    /\ customer' = InitialCustomer

\* The calls in flight of one kind are a multiset: the API answers them in any
\* order.  It is kept as a sequence in a fixed order of its elements.
Rank(call) ==
    (IF call.live THEN 4 ELSE 0)
    + (IF "step" \in DOMAIN call /\ call.step = "createOrder" THEN 2 ELSE 0)
    + (IF "payment_method" \in DOMAIN call /\ call.payment_method = "mock" THEN 1 ELSE 0)

Before(a, b) == Rank(a) < Rank(b)

Ordered(calls) == SortSeq(calls, Before)

\* the checkout screen unmounts: calls it issued stay in flight as stale
Unmounted(calls) ==
    Ordered([i \in 1..Len(calls) |-> [calls[i] EXCEPT !.live = FALSE]])

\* the auth store before loadUser has finished; AdminLayout not mounted
AdminUnmounted ==
    /\ rendered = "none"
    /\ stack = <<>>
    /\ effect = FALSE

SignedOut ==
    /\ isLoading = TRUE
    /\ isAuthenticated = FALSE
    /\ isAdmin = FALSE

\* CategoriesScreen not mounted
CategoriesUnmounted ==
    /\ categories = <<>>
    /\ products = <<>>
    /\ categoriesLoading = TRUE
    /\ refreshing = FALSE
    /\ searchQuery = <<>>
    /\ selectedCategory = Null
    /\ fetches = <<>>

Init ==
    /\ cart = <<>>
    /\ appliedDiscount = NoDiscount
    /\ screen = "tabs"
    /\ id = Null
    /\ product = NoProduct
    /\ quantity = 1
    /\ loading = FALSE
    /\ applyingDiscount = FALSE
    /\ discountCode = <<>>
    /\ selectedPayment = "mock"
    /\ customer = InitialCustomer
    /\ validations = <<>>
    /\ orders = <<>>
    /\ SignedOut
    /\ AdminUnmounted
    /\ CategoriesUnmounted
    /\ event = Quiet

-----------------------------------------------------------------------------
(* Storefront tabs: product cards *)

\* the model's cap on the cart: q more items still fit
Fits(q) == getCartItemCount(cart) + q <= MaxItems

\* ProductCard: the add button is rendered when product.stock > 0 and calls
\* addToCart(product, 1)
ProductCard_handleAddToCart(pid) ==
    /\ screen = "tabs"
    /\ Catalog[pid].stock > 0
    /\ Fits(1)
    /\ cart' = addToCart(cart, Catalog[pid], 1)
    /\ event' = Ev("addToCart", pid, 1, NoAlert)
    /\ UNCHANGED <<appliedDiscount, screen, detailVars, checkoutVars, callVars>>
    /\ UNCHANGED <<adminVars, categoriesVars>>

\* ProductCard onPress: router.push of product/[id]; the screen mounts with
\* product null and quantity 1
OpenProduct(pid) ==
    /\ screen = "tabs"
    /\ screen' = "product"
    /\ id' = pid
    /\ product' = NoProduct
    /\ quantity' = 1
    /\ event' = Quiet
    /\ UNCHANGED <<storeVars, checkoutVars, callVars>>
    /\ UNCHANGED <<adminVars, categoriesVars>>

-----------------------------------------------------------------------------
(* Product detail screen *)

\* loadProduct: getProduct(id) resolved, setProduct(data)
loadProduct ==
    /\ screen = "product"
    /\ product = NoProduct
    /\ product' = Catalog[id]
    /\ event' = Quiet
    /\ UNCHANGED <<storeVars, screen, id, quantity, checkoutVars, callVars>>
    /\ UNCHANGED <<adminVars, categoriesVars>>

\* the action bar is rendered when the product is loaded and product.stock > 0
ActionBar == screen = "product" /\ product # NoProduct /\ product.stock > 0

\* mutant: the minus button clamps at 0 instead of 1
QuantityMinus_clampAtZero ==
    /\ ActionBar
    /\ quantity' = Max(0, quantity - 1)
    /\ event' = Quiet
    /\ UNCHANGED <<storeVars, screen, id, product, checkoutVars, callVars>>
    /\ UNCHANGED <<adminVars, categoriesVars>>

\* minus: setQuantity(Math.max(1, quantity - 1))
QuantityMinus ==
    /\ ActionBar
    /\ quantity' = Max(1, quantity - 1)
    /\ event' = Quiet
    /\ UNCHANGED <<storeVars, screen, id, product, checkoutVars, callVars>>
    /\ UNCHANGED <<adminVars, categoriesVars>>

\* mutant: the plus button stops at the model's cart size instead of the stock
QuantityPlus_aboveStock ==
    /\ ActionBar
    /\ quantity' = Min(MaxItems, quantity + 1)
    /\ event' = Quiet
    /\ UNCHANGED <<storeVars, screen, id, product, checkoutVars, callVars>>
    /\ UNCHANGED <<adminVars, categoriesVars>>

\* plus: setQuantity(Math.min(product.stock, quantity + 1))
QuantityPlus ==
    /\ ActionBar
    /\ quantity' = Min(product.stock, quantity + 1)
    /\ event' = Quiet
    /\ UNCHANGED <<storeVars, screen, id, product, checkoutVars, callVars>>
    /\ UNCHANGED <<adminVars, categoriesVars>>

\* the route is popped: the detail screen unmounts
DetailUnmount ==
    /\ screen' = "tabs"
    /\ id' = Null
    /\ product' = NoProduct
    /\ quantity' = 1

\* mutant: the handler adds one unit whatever quantity is selected
ProductDetail_handleAddToCart_one ==
    /\ ActionBar
    /\ Fits(quantity)
    /\ cart' = addToCart(cart, product, 1)
    /\ DetailUnmount
    /\ event' = Ev("addToCart", product.id, 1, NoAlert)
    /\ UNCHANGED <<appliedDiscount, checkoutVars, callVars>>
    /\ UNCHANGED <<adminVars, categoriesVars>>

\* handleAddToCart: if (product) { addToCart(product, quantity); router.back() }
ProductDetail_handleAddToCart ==
    /\ ActionBar
    /\ Fits(quantity)
    /\ cart' = addToCart(cart, product, quantity)
    /\ DetailUnmount
    /\ event' = Ev("addToCart", product.id, quantity, NoAlert)
    /\ UNCHANGED <<appliedDiscount, checkoutVars, callVars>>
    /\ UNCHANGED <<adminVars, categoriesVars>>

\* header back button of product/[id]
ProductBack ==
    /\ screen = "product"
    /\ DetailUnmount
    /\ event' = Quiet
    /\ UNCHANGED <<storeVars, checkoutVars, callVars>>
    /\ UNCHANGED <<adminVars, categoriesVars>>

-----------------------------------------------------------------------------
(* Cart tab: one CartItemCard per line, the clear button, the checkout button *)

\* the cart screen renders the lines, the clear and the checkout button only
\* when cart.length > 0
CartShown == screen = "tabs" /\ Len(cart) > 0

\* mutant: the minus button never goes below 1
CartItemCard_minus_clamp(i) ==
    /\ CartShown
    /\ i \in 1..Len(cart)
    /\ cart' = updateQuantity(cart, cart[i].product.id, Max(1, cart[i].quantity - 1))
    /\ event' = Ev("minus", cart[i].product.id, Max(1, cart[i].quantity - 1), NoAlert)
    /\ UNCHANGED <<appliedDiscount, screen, detailVars, checkoutVars, callVars>>
    /\ UNCHANGED <<adminVars, categoriesVars>>

\* minus button: updateQuantity(item.product.id, item.quantity - 1)
CartItemCard_minus(i) ==
    /\ CartShown
    /\ i \in 1..Len(cart)
    /\ cart' = updateQuantity(cart, cart[i].product.id, cart[i].quantity - 1)
    /\ event' = Ev("minus", cart[i].product.id, cart[i].quantity - 1, NoAlert)
    /\ UNCHANGED <<appliedDiscount, screen, detailVars, checkoutVars, callVars>>
    /\ UNCHANGED <<adminVars, categoriesVars>>

\* plus button: updateQuantity(item.product.id, item.quantity + 1)
CartItemCard_plus(i) ==
    /\ CartShown
    /\ i \in 1..Len(cart)
    /\ Fits(1)
    /\ cart' = updateQuantity(cart, cart[i].product.id, cart[i].quantity + 1)
    /\ event' = Ev("plus", cart[i].product.id, cart[i].quantity + 1, NoAlert)
    /\ UNCHANGED <<appliedDiscount, screen, detailVars, checkoutVars, callVars>>
    /\ UNCHANGED <<adminVars, categoriesVars>>

\* mutant: removing a line also revokes a discount whose minimum order amount
\* the remaining lines no longer reach
CartItemCard_remove_revokes(i) ==
    /\ CartShown
    /\ i \in 1..Len(cart)
    /\ cart' = removeFromCart(cart, cart[i].product.id)
    /\ appliedDiscount' =
          IF SumPrices(cart') < appliedDiscount.min_order_amount
          THEN NoDiscount ELSE appliedDiscount
    /\ event' = Ev("remove", cart[i].product.id, 0, NoAlert)
    /\ UNCHANGED <<screen, detailVars, checkoutVars, callVars>>
    /\ UNCHANGED <<adminVars, categoriesVars>>

\* trash button: removeFromCart(item.product.id)
CartItemCard_remove(i) ==
    /\ CartShown
    /\ i \in 1..Len(cart)
    /\ cart' = removeFromCart(cart, cart[i].product.id)
    /\ event' = Ev("remove", cart[i].product.id, 0, NoAlert)
    /\ UNCHANGED <<appliedDiscount, screen, detailVars, checkoutVars, callVars>>
    /\ UNCHANGED <<adminVars, categoriesVars>>

\* store clearCart(): empties the ledger and clears the applied discount
clearCart ==
    /\ cart' = <<>>
    /\ appliedDiscount' = NoDiscount

\* header of the cart screen: onPress={clearCart}
CartScreen_clear ==
    /\ CartShown
    /\ clearCart
    /\ event' = Ev("clearCart", appliedDiscount.code, getCartItemCount(cart), NoAlert)
    /\ UNCHANGED <<screen, detailVars, checkoutVars, callVars>>
    /\ UNCHANGED <<adminVars, categoriesVars>>

\* checkout button: router.push('/checkout'); CheckoutScreen mounts with the
\* initial values of its useState hooks
CartScreen_checkout ==
    /\ CartShown
    /\ getCartItemCount(cart) <= MaxCheckoutItems
    /\ screen' = "checkout"
    /\ CheckoutInitial
    /\ event' = Quiet
    /\ UNCHANGED <<storeVars, detailVars, callVars>>
    /\ UNCHANGED <<adminVars, categoriesVars>>

-----------------------------------------------------------------------------
(* Checkout screen: inputs *)

\* the screen leaves the stack: its state is dropped, the calls it issued stay
\* in flight and their setState calls no longer reach a mounted component
CheckoutUnmount ==
    /\ CheckoutInitial
    /\ validations' = Unmounted(validations)
    /\ orders' = Unmounted(orders)

\* header back button of the checkout modal
CheckoutBack ==
    /\ screen = "checkout"
    /\ screen' = "tabs"
    /\ CheckoutUnmount
    /\ event' = Quiet
    /\ UNCHANGED <<storeVars, detailVars>>
    /\ UNCHANGED <<adminVars, categoriesVars>>

\* onChangeText={setDiscountCode}
setDiscountCode(text) ==
    /\ screen = "checkout"
    /\ text # discountCode
    /\ discountCode' = text
    /\ event' = Quiet
    /\ UNCHANGED <<storeVars, screen, detailVars, loading, applyingDiscount,
                   selectedPayment, customer, callVars>>
    /\ UNCHANGED <<adminVars, categoriesVars>>

\* onPress={() => setSelectedPayment(method.id)}
setSelectedPayment(m) ==
    /\ screen = "checkout"
    /\ m # selectedPayment
    /\ selectedPayment' = m
    /\ event' = Quiet
    /\ UNCHANGED <<storeVars, screen, detailVars, loading, applyingDiscount,
                   discountCode, customer, callVars>>
    /\ UNCHANGED <<adminVars, categoriesVars>>

\* the fields of the form, top to bottom
FormOrder == <<"name", "email", "phone", "address", "city", "postal_code">>

\* the check validateForm makes on field f holding text
Passes(f, text) ==
    /\ trim(text) # <<>>
    /\ f = "email" => includes(text, "@")

\* the model fills the form top to bottom and empties it bottom to top: a
\* field is edited while the fields above it pass their check and the fields
\* below it are empty; a filled field is retyped while the fields below it
\* are filled
InFormOrder(f, text) ==
    \E k \in 1..Len(FormOrder) :
        /\ FormOrder[k] = f
        /\ \A j \in 1..(k - 1) : Passes(FormOrder[j], customer[FormOrder[j]])
        /\ \/ \A j \in (k + 1)..Len(FormOrder) : customer[FormOrder[j]] = <<>>
           \/ /\ text # <<>>
              /\ customer[f] # <<>>
              /\ \A j \in (k + 1)..Len(FormOrder) : customer[FormOrder[j]] # <<>>

\* onChangeText={(text) => setCustomer({ ...customer, [field]: text })}
setCustomer(f, text) ==
    /\ screen = "checkout"
    /\ text # customer[f]
    /\ InFormOrder(f, text)
    /\ customer' = [customer EXCEPT ![f] = text]
    /\ event' = Quiet
    /\ UNCHANGED <<storeVars, screen, detailVars, loading, applyingDiscount,
                   discountCode, selectedPayment, callVars>>
    /\ UNCHANGED <<adminVars, categoriesVars>>

\* the close icon of the applied-discount row: setAppliedDiscount(null)
RemoveDiscount ==
    /\ screen = "checkout"
    /\ appliedDiscount # NoDiscount
    /\ appliedDiscount' = NoDiscount
    /\ event' = Quiet
    /\ UNCHANGED <<cart, screen, detailVars, checkoutVars, callVars>>
    /\ UNCHANGED <<adminVars, categoriesVars>>

-----------------------------------------------------------------------------
(* Checkout screen: handleApplyDiscount *)

\* the model's cap on the calls in flight: one more may be issued
MayCall == Len(validations) + Len(orders) < MaxPending

RemoveAt(calls, i) == SubSeq(calls, 1, i - 1) \o SubSeq(calls, i + 1, Len(calls))

\* mutant: the handler applies a discount at the press, before the validation
\* has answered
handleApplyDiscount_optimistic ==
    /\ screen = "checkout"
    /\ ~applyingDiscount
    /\ IF trim(discountCode) = <<>>
       THEN /\ event' = Quiet
            /\ UNCHANGED <<applyingDiscount, validations, appliedDiscount>>
       ELSE /\ MayCall
            /\ applyingDiscount' = TRUE
            /\ validations' = Ordered(Append(validations, [live |-> TRUE]))
            /\ \E d \in Discounts : appliedDiscount' = d
            /\ event' = Sent("validateDiscount", <<discountCode, subtotal>>)
    /\ UNCHANGED <<cart, screen, detailVars, loading, discountCode,
                   selectedPayment, customer, orders>>
    /\ UNCHANGED <<adminVars, categoriesVars>>

\* press of the apply button (disabled while applyingDiscount): returns at once
\* on a blank code, else sets the busy flag and awaits validateDiscount
handleApplyDiscount ==
    /\ screen = "checkout"
    /\ ~applyingDiscount
    /\ IF trim(discountCode) = <<>>
       THEN /\ event' = Quiet
            /\ UNCHANGED <<applyingDiscount, validations>>
       ELSE /\ MayCall
            /\ applyingDiscount' = TRUE
            /\ validations' = Ordered(Append(validations, [live |-> TRUE]))
            /\ event' = Sent("validateDiscount", <<discountCode, subtotal>>)
    /\ UNCHANGED <<storeVars, screen, detailVars, loading, discountCode,
                   selectedPayment, customer, orders>>
    /\ UNCHANGED <<adminVars, categoriesVars>>

\* mutant: a validated discount is applied only when none is applied yet
ApplyDiscountResolved_keepsOld(i, d) ==
    /\ i \in 1..Len(validations)
    /\ appliedDiscount' = IF appliedDiscount = NoDiscount THEN d ELSE appliedDiscount
    /\ IF validations[i].live
       THEN discountCode' = <<>> /\ applyingDiscount' = FALSE
       ELSE UNCHANGED <<discountCode, applyingDiscount>>
    /\ validations' = RemoveAt(validations, i)
    /\ event' = [Ev("discountApplied", d.code, 0, "Discount applied!")
                    EXCEPT !.data = <<appliedDiscount>>]
    /\ UNCHANGED <<cart, screen, detailVars, loading, selectedPayment, customer, orders>>
    /\ UNCHANGED <<adminVars, categoriesVars>>

\* validateDiscount resolved with discount d: setAppliedDiscount(discount),
\* setDiscountCode(''), success alert, finally setApplyingDiscount(false)
ApplyDiscountResolved(i, d) ==
    /\ i \in 1..Len(validations)
    /\ appliedDiscount' = d
    /\ IF validations[i].live
       THEN discountCode' = <<>> /\ applyingDiscount' = FALSE
       ELSE UNCHANGED <<discountCode, applyingDiscount>>
    /\ validations' = RemoveAt(validations, i)
    /\ event' = [Ev("discountApplied", d.code, 0, "Discount applied!")
                    EXCEPT !.data = <<appliedDiscount>>]
    /\ UNCHANGED <<cart, screen, detailVars, loading, selectedPayment, customer, orders>>
    /\ UNCHANGED <<adminVars, categoriesVars>>

\* mutant: the catch block drops the discount applied before
ApplyDiscountRejected_clears(i) ==
    /\ i \in 1..Len(validations)
    /\ IF validations[i].live
       THEN applyingDiscount' = FALSE
       ELSE UNCHANGED applyingDiscount
    /\ validations' = RemoveAt(validations, i)
    /\ appliedDiscount' = NoDiscount
    /\ \E detail \in ErrorDetails :
          event' = Ev("discountRejected", Null, 0,
                      AlertText(detail, "Invalid discount code"))
    /\ UNCHANGED <<cart, screen, detailVars, loading, discountCode,
                   selectedPayment, customer, orders>>
    /\ UNCHANGED <<adminVars, categoriesVars>>

\* validateDiscount rejected (rejection or network error): error alert with the
\* server's detail or the fallback text, finally setApplyingDiscount(false)
ApplyDiscountRejected(i) ==
    /\ i \in 1..Len(validations)
    /\ IF validations[i].live
       THEN applyingDiscount' = FALSE
       ELSE UNCHANGED applyingDiscount
    /\ validations' = RemoveAt(validations, i)
    /\ \E detail \in ErrorDetails :
          event' = Ev("discountRejected", Null, 0,
                      AlertText(detail, "Invalid discount code"))
    /\ UNCHANGED <<storeVars, screen, detailVars, loading, discountCode,
                   selectedPayment, customer, orders>>
    /\ UNCHANGED <<adminVars, categoriesVars>>

-----------------------------------------------------------------------------
(* Checkout screen: handlePlaceOrder *)

Ok == "ok"

\* mutant: the email check accepts a text without "@"
validateForm_noAt(c) ==
    IF trim(c["name"]) = <<>> THEN "Please enter your name"
    ELSE IF trim(c["email"]) = <<>> THEN "Please enter a valid email"
    ELSE IF trim(c["phone"]) = <<>> THEN "Please enter your phone number"
    ELSE IF trim(c["address"]) = <<>> THEN "Please enter your address"
    ELSE IF trim(c["city"]) = <<>> THEN "Please enter your city"
    ELSE IF trim(c["postal_code"]) = <<>> THEN "Please enter your postal code"
    ELSE "ok"

\* validateForm: the alert of the first check that fails, or Ok
validateForm(c) ==
    IF trim(c["name"]) = <<>> THEN "Please enter your name"
    ELSE IF trim(c["email"]) = <<>> \/ ~includes(c["email"], "@")
         THEN "Please enter a valid email"
    ELSE IF trim(c["phone"]) = <<>> THEN "Please enter your phone number"
    ELSE IF trim(c["address"]) = <<>> THEN "Please enter your address"
    ELSE IF trim(c["city"]) = <<>> THEN "Please enter your city"
    ELSE IF trim(c["postal_code"]) = <<>> THEN "Please enter your postal code"
    ELSE Ok

\* mutant: the items are listed from the last line to the first
Items_reversed(c) ==
    [i \in 1..Len(c) |-> [product_id |-> c[Len(c) + 1 - i].product.id,
                          quantity |-> c[Len(c) + 1 - i].quantity]]

\* cart.map((item) => ({ product_id: item.product.id, quantity: item.quantity }))
Items(c) ==
    [i \in 1..Len(c) |-> [product_id |-> c[i].product.id, quantity |-> c[i].quantity]]

\* press of the place-order button (disabled while loading)
handlePlaceOrder ==
    /\ screen = "checkout"
    /\ ~loading
    /\ IF validateForm(customer) # Ok
       THEN /\ event' = Ev("placeOrderInvalid", Null, 0, validateForm(customer))
            /\ UNCHANGED <<loading, orders>>
       ELSE IF Len(cart) = 0
       THEN /\ event' = Ev("placeOrderInvalid", Null, 0, "Your cart is empty")
            /\ UNCHANGED <<loading, orders>>
       ELSE /\ MayCall
            /\ loading' = TRUE
            /\ orders' = Ordered(Append(orders,
                   [payment_method |-> selectedPayment,
                    step |-> "createOrder", live |-> TRUE]))
            /\ event' = Sent("createOrder",
                   [items |-> Items(cart), customer |-> customer,
                    payment_method |-> selectedPayment])
    /\ UNCHANGED <<storeVars, screen, detailVars, applyingDiscount, discountCode,
                   selectedPayment, customer, validations>>
    /\ UNCHANGED <<adminVars, categoriesVars>>

\* mutant: the handler goes to the success route without clearCart()
OrderPlaced_keepsCart(i) ==
    /\ UNCHANGED storeVars
    /\ screen' = "success"
    /\ id' = Null
    /\ product' = NoProduct
    /\ quantity' = 1
    /\ CheckoutInitial
    /\ validations' = Unmounted(validations)
    /\ orders' = Unmounted(RemoveAt(orders, i))
    /\ event' = Ev("orderPlaced", appliedDiscount.code, getCartItemCount(cart), NoAlert)
    /\ UNCHANGED <<adminVars, categoriesVars>>

\* the tail of the try block: clearCart(); router.replace('/checkout/success');
\* finally setLoading(false).  The success route replaces the top route.
OrderPlaced(i) ==
    /\ clearCart
    /\ screen' = "success"
    /\ id' = Null
    /\ product' = NoProduct
    /\ quantity' = 1
    /\ CheckoutInitial
    /\ validations' = Unmounted(validations)
    /\ orders' = Unmounted(RemoveAt(orders, i))
    /\ event' = Ev("orderPlaced", appliedDiscount.code, getCartItemCount(cart), NoAlert)
    /\ UNCHANGED <<adminVars, categoriesVars>>

\* mutant: the catch block also empties the cart
OrderFailed_clearsCart(i) ==
    /\ IF orders[i].live THEN loading' = FALSE ELSE UNCHANGED loading
    /\ orders' = RemoveAt(orders, i)
    /\ clearCart
    /\ \E detail \in ErrorDetails :
          event' = Ev("orderFailed", orders[i].step, 0,
                      AlertText(detail, "Failed to place order. Please try again."))
    /\ UNCHANGED <<screen, detailVars, applyingDiscount, discountCode,
                   selectedPayment, customer, validations>>
    /\ UNCHANGED <<adminVars, categoriesVars>>

\* mutant: the catch block without the finally: the flag stays set
OrderFailed_staysLoading(i) ==
    /\ orders' = RemoveAt(orders, i)
    /\ \E detail \in ErrorDetails :
          event' = Ev("orderFailed", orders[i].step, 0,
                      AlertText(detail, "Failed to place order. Please try again."))
    /\ UNCHANGED <<storeVars, screen, detailVars, loading, applyingDiscount,
                   discountCode, selectedPayment, customer, validations>>
    /\ UNCHANGED <<adminVars, categoriesVars>>

\* catch: error alert; finally setLoading(false)
OrderFailed(i) ==
    /\ IF orders[i].live THEN loading' = FALSE ELSE UNCHANGED loading
    /\ orders' = RemoveAt(orders, i)
    /\ \E detail \in ErrorDetails :
          event' = Ev("orderFailed", orders[i].step, 0,
                      AlertText(detail, "Failed to place order. Please try again."))
    /\ UNCHANGED <<storeVars, screen, detailVars, applyingDiscount, discountCode,
                   selectedPayment, customer, validations>>
    /\ UNCHANGED <<adminVars, categoriesVars>>

\* createOrder resolved: with the mock method the handler awaits
\* processMockPayment next, else it runs to the end of the try block
CreateOrderResolved(i) ==
    /\ i \in 1..Len(orders)
    /\ orders[i].step = "createOrder"
    /\ IF orders[i].payment_method = "mock"
       THEN /\ orders' = Ordered([orders EXCEPT ![i].step = "processMockPayment"])
            /\ event' = Quiet
            /\ UNCHANGED <<storeVars, screen, detailVars, checkoutVars, validations>>
       ELSE OrderPlaced(i)
    /\ UNCHANGED <<adminVars, categoriesVars>>

\* createOrder rejected
CreateOrderRejected(i) ==
    /\ i \in 1..Len(orders)
    /\ orders[i].step = "createOrder"
    /\ OrderFailed(i)

\* processMockPayment resolved
MockPaymentResolved(i) ==
    /\ i \in 1..Len(orders)
    /\ orders[i].step = "processMockPayment"
    /\ OrderPlaced(i)

\* processMockPayment rejected
MockPaymentRejected(i) ==
    /\ i \in 1..Len(orders)
    /\ orders[i].step = "processMockPayment"
    /\ OrderFailed(i)

-----------------------------------------------------------------------------
(* Success screen *)

\* continue-shopping button: router.replace('/(tabs)')
ContinueShopping ==
    /\ screen = "success"
    /\ screen' = "tabs"
    /\ event' = Quiet
    /\ UNCHANGED <<storeVars, detailVars, checkoutVars, callVars>>
    /\ UNCHANGED <<adminVars, categoriesVars>>

-----------------------------------------------------------------------------
(* Specification *)

Next ==
    \/ \E pid \in ProductIds : ProductCard_handleAddToCart(pid)
    \/ \E pid \in ProductIds : OpenProduct(pid)
    \/ loadProduct
    \/ QuantityMinus
    \/ QuantityPlus
    \/ ProductDetail_handleAddToCart
    \/ ProductBack
    \/ \E i \in 1..Len(cart) : CartItemCard_minus(i)
    \/ \E i \in 1..Len(cart) : CartItemCard_plus(i)
    \/ \E i \in 1..Len(cart) : CartItemCard_remove(i)
    \/ CartScreen_clear
    \/ CartScreen_checkout
    \/ CheckoutBack
    \/ \E text \in CodeTexts : setDiscountCode(text)
    \/ \E m \in PaymentChoices : setSelectedPayment(m)
    \/ \E f \in CustomerFields : \E text \in TextsOf(f) : setCustomer(f, text)
    \/ RemoveDiscount
    \/ handleApplyDiscount
    \/ \E i \in 1..Len(validations) : \E d \in Discounts : ApplyDiscountResolved(i, d)
    \/ \E i \in 1..Len(validations) : ApplyDiscountRejected(i)
    \/ handlePlaceOrder
    \/ \E i \in 1..Len(orders) : CreateOrderResolved(i)
    \/ \E i \in 1..Len(orders) : CreateOrderRejected(i)
    \/ \E i \in 1..Len(orders) : MockPaymentResolved(i)
    \/ \E i \in 1..Len(orders) : MockPaymentRejected(i)
    \/ ContinueShopping

Spec == Init /\ [][Next]_vars

\* a call awaited by the mounted checkout screen settles: the promise of an
\* API call resolves or rejects, and the handler's continuation runs
SettleValidation ==
    \E i \in 1..Len(validations) :
        /\ validations[i].live
        /\ \/ \E d \in Discounts : ApplyDiscountResolved(i, d)
           \/ ApplyDiscountRejected(i)

SettleOrder ==
    \E i \in 1..Len(orders) :
        /\ orders[i].live
        /\ \/ CreateOrderResolved(i)
           \/ CreateOrderRejected(i)
           \/ MockPaymentResolved(i)
           \/ MockPaymentRejected(i)

\* one visit of the checkout screen, opened with one item in the cart
CheckoutInit ==
    /\ cart \in {<<[product |-> Catalog[pid], quantity |-> 1]>> : pid \in ProductIds}
    /\ appliedDiscount = NoDiscount
    /\ screen = "checkout"
    /\ id = Null
    /\ product = NoProduct
    /\ quantity = 1
    /\ loading = FALSE
    /\ applyingDiscount = FALSE
    /\ discountCode = <<>>
    /\ selectedPayment = "mock"
    /\ customer = InitialCustomer
    /\ validations = <<>>
    /\ orders = <<>>
    /\ SignedOut
    /\ AdminUnmounted
    /\ CategoriesUnmounted
    /\ event = Quiet

CheckoutNext ==
    \/ CheckoutBack
    \/ \E text \in CodeTexts : setDiscountCode(text)
    \/ \E m \in PaymentChoices : setSelectedPayment(m)
    \/ \E f \in CustomerFields : \E text \in TextsOf(f) : setCustomer(f, text)
    \/ RemoveDiscount
    \/ handleApplyDiscount
    \/ \E i \in 1..Len(validations) : \E d \in Discounts : ApplyDiscountResolved(i, d)
    \/ \E i \in 1..Len(validations) : ApplyDiscountRejected(i)
    \/ handlePlaceOrder
    \/ \E i \in 1..Len(orders) : CreateOrderResolved(i)
    \/ \E i \in 1..Len(orders) : CreateOrderRejected(i)
    \/ \E i \in 1..Len(orders) : MockPaymentResolved(i)
    \/ \E i \in 1..Len(orders) : MockPaymentRejected(i)

\* the visit under the assumption that no awaited call stays pending forever
FairSpec ==
    /\ CheckoutInit
    /\ [][CheckoutNext]_vars
    /\ WF_vars(SettleValidation)
    /\ WF_vars(SettleOrder)

-----------------------------------------------------------------------------
(* The store on its own: its operations and the price summary over a range of *)
(* ledgers and discounts                                                      *)

\* largest quantity of a line of a drawn ledger
MaxQuantity == 2

StoreProducts ==
    {Catalog["p1"], Catalog["p2"], [id |-> "p3", price |-> 5, stock |-> 1]}

StoreProductIds == {p.id : p \in StoreProducts}

\* Discounts, a fixed one above every subtotal drawn and a percentage above 100
StoreDiscounts ==
    Discounts \cup
    { [code |-> "FIX50", discount_type |-> "fixed", discount_value |-> 5000,
       min_order_amount |-> 0],
      [code |-> "OVER", discount_type |-> "percentage", discount_value |-> 150,
       min_order_amount |-> 0] }

\* the ledgers: sequences of lines with pairwise different products
Ledgers ==
    {c \in UNION {[1..n -> [product : StoreProducts, quantity : 1..MaxQuantity]] :
                    n \in 0..Cardinality(StoreProducts)} :
        \A i, j \in 1..Len(c) : i # j => c[i].product.id # c[j].product.id}

StoreInit ==
    /\ cart \in Ledgers
    /\ appliedDiscount \in StoreDiscounts \cup {NoDiscount}
    /\ screen = "tabs"
    /\ id = Null
    /\ product = NoProduct
    /\ quantity = 1
    /\ loading = FALSE
    /\ applyingDiscount = FALSE
    /\ discountCode = <<>>
    /\ selectedPayment = "mock"
    /\ customer = InitialCustomer
    /\ validations = <<>>
    /\ orders = <<>>
    /\ SignedOut
    /\ AdminUnmounted
    /\ CategoriesUnmounted
    /\ event = Quiet

\* mutant: the summary is computed from the ledger alone, as it was before a
\* discount was applied
Summary_withoutDiscount ==
    /\ CartShown
    /\ event' = [Ev("summary", Null, 0, NoAlert) EXCEPT !.data =
                    [subtotal |-> toFixed(getCartTotal(cart, NoDiscount).subtotal),
                     tax |-> toFixed(getCartTotal(cart, NoDiscount).tax),
                     total |-> toFixed(getCartTotal(cart, NoDiscount).total)]]
    /\ UNCHANGED <<storeVars, screen, detailVars, checkoutVars, callVars>>
    /\ UNCHANGED <<adminVars, categoriesVars>>

\* the summary of the cart screen: getCartTotal() of the store, each amount
\* shown with toFixed(2)
Summary ==
    /\ CartShown
    /\ event' = [Ev("summary", Null, 0, NoAlert) EXCEPT !.data =
                    [subtotal |-> toFixed(getCartTotal(cart, appliedDiscount).subtotal),
                     tax |-> toFixed(getCartTotal(cart, appliedDiscount).tax),
                     total |-> toFixed(getCartTotal(cart, appliedDiscount).total)]]
    /\ UNCHANGED <<storeVars, screen, detailVars, checkoutVars, callVars>>
    /\ UNCHANGED <<adminVars, categoriesVars>>

\* removeFromCart(productId) of the store, for any product id
Store_removeFromCart(pid) ==
    /\ cart' = removeFromCart(cart, pid)
    /\ event' = Ev("removeFromCart", pid, Len(cart), NoAlert)
    /\ UNCHANGED <<appliedDiscount, screen, detailVars, checkoutVars, callVars>>
    /\ UNCHANGED <<adminVars, categoriesVars>>

\* the products as a later fetch returns them: p1 at another price
Offers == StoreProducts \cup {[Catalog["p1"] EXCEPT !.price = 1200]}

\* addToCart(product, quantity) of the store, for a product as fetched now
Store_addToCart(p, q) ==
    /\ \A i \in 1..Len(cart) : cart[i].product.id = p.id => cart[i].quantity + q <= MaxQuantity
    /\ cart' = addToCart(cart, p, q)
    /\ event' = [Ev("addToCart", p.id, q, NoAlert) EXCEPT !.data = <<p>>]
    /\ UNCHANGED <<appliedDiscount, screen, detailVars, checkoutVars, callVars>>
    /\ UNCHANGED <<adminVars, categoriesVars>>

\* setAppliedDiscount(discount) of the store
Store_setAppliedDiscount(d) ==
    /\ d # appliedDiscount
    /\ appliedDiscount' = d
    /\ event' = Ev("setAppliedDiscount", d.code, 0, NoAlert)
    /\ UNCHANGED <<cart, screen, detailVars, checkoutVars, callVars>>
    /\ UNCHANGED <<adminVars, categoriesVars>>

StoreNext ==
    \/ Summary
    \/ \E d \in StoreDiscounts \cup {NoDiscount} : Store_setAppliedDiscount(d)
    \/ \E p \in Offers : \E q \in 1..MaxQuantity : Store_addToCart(p, q)
    \/ \E pid \in StoreProductIds : Store_removeFromCart(pid)

StoreSpec == StoreInit /\ [][StoreNext]_vars

-----------------------------------------------------------------------------
(* The localized text resolver of the store, on its own *)

\* the languages of a multilingual text
Languages == {"nl", "fr", "en", "tr"}

\* a key that the record does not have
Undefined == "undefined"

\* the word a text has in language k, when it has one
Word(k) ==
    IF k = "nl" THEN "Hamer"
    ELSE IF k = "fr" THEN "Marteau"
    ELSE IF k = "en" THEN "Hammer"
    ELSE "Cekic"

\* the multilingual texts: every key missing, empty or filled
MultilingualTexts ==
    {text \in [Languages -> {Undefined, "", "Hamer", "Marteau", "Hammer", "Cekic"}] :
        \A k \in Languages : text[k] \in {Undefined, "", Word(k)}}

\* a value that counts as text: defined and not empty
NonEmpty(v) == v # Undefined /\ v # ""

\* mutant: the fallback goes through nl, fr, en, tr, with no preference for en
getLocalizedText_noEnglishFirst(text, lang) ==
    IF NonEmpty(text[lang]) THEN text[lang]
    ELSE IF NonEmpty(text["nl"]) THEN text["nl"]
    ELSE IF NonEmpty(text["fr"]) THEN text["fr"]
    ELSE IF NonEmpty(text["en"]) THEN text["en"]
    ELSE IF NonEmpty(text["tr"]) THEN text["tr"]
    ELSE ""

\* getLocalizedText(text) of the store with active language lang: the text of
\* the active language, else en, else the first of nl, fr, tr, else ''
getLocalizedText(text, lang) ==
    IF NonEmpty(text[lang]) THEN text[lang]
    ELSE IF NonEmpty(text["en"]) THEN text["en"]
    ELSE IF NonEmpty(text["nl"]) THEN text["nl"]
    ELSE IF NonEmpty(text["fr"]) THEN text["fr"]
    ELSE IF NonEmpty(text["tr"]) THEN text["tr"]
    ELSE ""

\* CartItemCard renders getLocalizedText(item.product.name)
CartItemCard_name(text, lang) ==
    /\ event' = [Ev("getLocalizedText", Null, 0, NoAlert) EXCEPT !.data =
                    <<text, lang, getLocalizedText(text, lang)>>]
    /\ UNCHANGED <<storeVars, screen, detailVars, checkoutVars, callVars>>
    /\ UNCHANGED <<adminVars, categoriesVars>>

ResolverNext ==
    \E text \in MultilingualTexts : \E lang \in Languages : CartItemCard_name(text, lang)

ResolverSpec == Init /\ [][ResolverNext]_vars

-----------------------------------------------------------------------------
(* Properties of the cart ledger *)

LineOf(c, pid) == CHOOSE i \in 1..Len(c) : c[i].product.id = pid

\* C1: in every reachable state the ledger holds at most one line per product
\* id and every line present has quantity >= 1.
C1_LedgerInvariant ==
    /\ \A i, j \in 1..Len(cart) : i # j => cart[i].product.id # cart[j].product.id
    /\ \A i \in 1..Len(cart) : cart[i].quantity >= 1

\* a line was lowered with the minus button and stays, next to another line
C1_Witness ==
    /\ event.op = "minus"
    /\ event.n >= 1
    /\ Len(cart) = 2
    /\ HasLine(cart, event.pid)

\* the quantity an add-to-cart press passes: the quantity selected on the detail
\* screen, 1 on a product card
Selected == IF screen = "product" THEN quantity ELSE 1

\* C2: an add-to-cart press with selected quantity q >= 1 on product P: when a
\* line for P exists its quantity grows by q and the ledger keeps its length;
\* when none exists one line (P, q) is appended; every other line keeps its
\* product, quantity and position.
C2_AddToCart ==
    [][event'.op = "addToCart" =>
        LET pid == event'.pid
            q == Selected
        IN  /\ q >= 1
            /\ event'.n = q
            /\ IF HasLine(cart, pid)
               THEN /\ Len(cart') = Len(cart)
                    /\ \A i \in 1..Len(cart) :
                          /\ cart'[i].product = cart[i].product
                          /\ cart'[i].quantity =
                                IF cart[i].product.id = pid
                                THEN cart[i].quantity + q
                                ELSE cart[i].quantity
               ELSE /\ Len(cart') = Len(cart) + 1
                    /\ cart'[Len(cart')].product.id = pid
                    /\ cart'[Len(cart')].quantity = q
                    /\ \A i \in 1..Len(cart) : cart'[i] = cart[i]
    ]_vars

\* addToCart(P, 3) on a ledger whose only line was (P, 2): one line, quantity 5
C2_Witness ==
    /\ event.op = "addToCart"
    /\ event.n = 3
    /\ Len(cart) = 1
    /\ cart[1].product.id = event.pid
    /\ cart[1].quantity = 5

\* C3: a plus or minus press calls updateQuantity(id, n) with n the line's
\* quantity plus or minus one; for n <= 0 the line is removed and the item count
\* drops by its quantity, for n > 0 the line's quantity becomes exactly n and
\* nothing else changes.  The minus button on a line of quantity 1 removes it.
C3_UpdateQuantity ==
    [][event'.op \in {"minus", "plus"} =>
        LET pid == event'.pid
            n == event'.n
            old == cart[LineOf(cart, pid)].quantity
        IN  /\ HasLine(cart, pid)
            /\ n = IF event'.op = "minus" THEN old - 1 ELSE old + 1
            /\ IF n <= 0
               THEN /\ ~HasLine(cart', pid)
                    /\ Len(cart') = Len(cart) - 1
                    /\ getCartItemCount(cart') = getCartItemCount(cart) - old
                    /\ cartItemCount' = cartItemCount - old
               ELSE /\ Len(cart') = Len(cart)
                    /\ \A i \in 1..Len(cart) :
                          /\ cart'[i].product = cart[i].product
                          /\ cart'[i].quantity =
                                IF cart[i].product.id = pid THEN n
                                ELSE cart[i].quantity
    ]_vars

\* the minus button was pressed on a line of quantity 1 and the line is gone,
\* while another line is still there
C3_Witness ==
    /\ event.op = "minus"
    /\ event.n = 0
    /\ ~HasLine(cart, event.pid)
    /\ Len(cart) = 1

\* C4: after clearCart(), from the clear button of the cart screen or at the end
\* of a successful checkout, the ledger has no lines, no discount is applied and
\* the item count is 0.
C4_ClearCart ==
    event.op \in {"clearCart", "orderPlaced"} =>
        /\ cart = <<>>
        /\ appliedDiscount = NoDiscount
        /\ getCartItemCount(cart) = 0
        /\ cartItemCount = 0

\* a checkout succeeded on a cart that had lines and an applied discount
C4_Witness ==
    /\ event.op = "orderPlaced"
    /\ event.pid # Null
    /\ event.n > 0
    /\ cart = <<>>

-----------------------------------------------------------------------------
(* Properties of the checkout screen *)

\* C5: a step in which the order submission fails (createOrder or
\* processMockPayment rejects) leaves the ledger and the applied discount as
\* they were; on the checkout screen the ledger changes only in the step that
\* ends a submission whose last call resolved.
C5_FailureKeepsCart ==
    [][/\ event'.op = "orderFailed" =>
            /\ cart' = cart
            /\ appliedDiscount' = appliedDiscount
       /\ (screen = "checkout" /\ cart' # cart) => event'.op = "orderPlaced"
       /\ event'.op = "orderPlaced" =>
            \E i \in 1..Len(orders) :
                /\ orders' = Unmounted(RemoveAt(orders, i))
                /\ \/ orders[i].step = "processMockPayment"
                   \/ orders[i].payment_method # "mock"
    ]_vars

\* the mock payment of a submission was rejected; the cart still has its lines
\* and the place-order button is enabled again
C5_Witness ==
    /\ event.op = "orderFailed"
    /\ event.pid = "processMockPayment"
    /\ screen = "checkout"
    /\ cart # <<>>
    /\ ~loading

InFlight(step) == {i \in 1..Len(orders) : orders[i].step = step}

\* C6: at most one createOrder call is in flight.
C6_OneCreateOrderInFlight == Cardinality(InFlight("createOrder")) <= 1

\* C7: a step in which a discount validation fails leaves the applied discount
\* as it was and raises an error alert.
C7_RejectionKeepsDiscount ==
    [][event'.op = "discountRejected" =>
            /\ appliedDiscount' = appliedDiscount
            /\ event'.alert \in {"detail", "Invalid discount code"}
    ]_vars

\* a validation failed while the fixed discount was applied
C7_Witness ==
    /\ event.op = "discountRejected"
    /\ appliedDiscount \in Discounts
    /\ appliedDiscount.discount_type = "fixed"

\* C8 as stated: after a failed validation no discount is applied.
C8_RejectedIsNoDiscount ==
    event.op = "discountRejected" => appliedDiscount = NoDiscount

\* C8 as amended: a validation starts only by a press of the apply button with a
\* non-blank code and sets the busy flag; a discount becomes applied only in
\* the step in which a validation in flight resolves; a failed validation ends
\* the call, raises an error alert and leaves the applied discount as it was
\* before the attempt (none if none was applied).
C8_DiscountStates ==
    [][/\ Len(validations') > Len(validations) =>
            /\ event'.op = "validateDiscount"
            /\ trim(discountCode) # <<>>
            /\ ~applyingDiscount /\ applyingDiscount'
            /\ appliedDiscount' = appliedDiscount
       /\ (appliedDiscount' # appliedDiscount /\ appliedDiscount' # NoDiscount) =>
            /\ event'.op = "discountApplied"
            /\ Len(validations') = Len(validations) - 1
       /\ event'.op = "discountRejected" =>
            /\ Len(validations') = Len(validations) - 1
            /\ event'.alert # NoAlert
            /\ appliedDiscount' = appliedDiscount
            /\ (appliedDiscount = NoDiscount => appliedDiscount' = NoDiscount)
    ]_vars

\* the only validation in flight failed on the mounted screen while a discount
\* was applied: the apply button is enabled again and the discount still applied
C8_Witness ==
    /\ event.op = "discountRejected"
    /\ screen = "checkout"
    /\ validations = <<>>
    /\ ~applyingDiscount
    /\ appliedDiscount # NoDiscount

\* C9: the store holds one applied discount or none; after a successful
\* validation the applied discount is the one the validation returned,
\* whatever was applied before.
C9_SingleDiscount ==
    /\ appliedDiscount \in Discounts \cup {NoDiscount}
    /\ event.op = "discountApplied" =>
            /\ appliedDiscount \in Discounts
            /\ appliedDiscount.code = event.pid

\* a validation succeeded while another discount was applied
C9_Witness ==
    /\ event.op = "discountApplied"
    /\ event.data[1] \in Discounts
    /\ event.data[1].code # event.pid
    /\ appliedDiscount.code = event.pid

\* C10: the applied discount changes only by the remove control of the checkout
\* screen (which sets it to none), by clearCart (clear button, successful
\* checkout) or by a successful validation; add-to-cart, plus, minus and remove
\* presses leave it as it is.
C10_DiscountFrame ==
    [][/\ appliedDiscount' # appliedDiscount =>
            \/ event'.op \in {"clearCart", "orderPlaced", "discountApplied"}
            \/ /\ screen = "checkout" /\ screen' = "checkout"
               /\ appliedDiscount' = NoDiscount
               /\ event'.op = "none"
       /\ event'.op \in {"addToCart", "minus", "plus", "remove"} =>
            appliedDiscount' = appliedDiscount
    ]_vars

\* a line was removed and the subtotal is now below the minimum order amount
\* of the discount that is still applied
C10_Witness ==
    /\ event.op = "remove"
    /\ event.pid = "p1"
    /\ appliedDiscount # NoDiscount
    /\ cart # <<>>
    /\ subtotal < appliedDiscount.min_order_amount

-----------------------------------------------------------------------------
(* Properties of the validations in flight *)

\* C11: at most one validateDiscount call is in flight.
C11_OneValidationInFlight == Len(validations) <= 1

\* C12: a validation that resolves after the cart was cleared does not apply its
\* discount.  The apply button exists only on the checkout screen, which is
\* opened from a cart with lines and on which the cart changes only by leaving
\* for the success route: a validation that resolves on an empty cart was sent
\* before the cart was cleared.
C12_StaleResponseIgnored ==
    ~(/\ event.op = "discountApplied"
      /\ cart = <<>>
      /\ appliedDiscount # NoDiscount)

-----------------------------------------------------------------------------
(* Properties of the local validation *)

\* the form as the claim reads it: name, phone, address, city and postal code
\* non-empty, email non-empty and with an "@"
FormComplete(c) ==
    /\ \A f \in CustomerFields : c[f] # <<>>
    /\ includes(c["email"], "@")

-----------------------------------------------------------------------------
(* Properties of the pricing engine *)

\* the price breakdown of the current ledger and applied discount
Totals == getCartTotal(cart, appliedDiscount)

\* x, an amount in hundredths of a cent, is shown as shown cents
ShownAs(x, shown) == shown * 100 - 50 <= x /\ x < shown * 100 + 50

Eligible ==
    /\ appliedDiscount # NoDiscount
    /\ SumPrices(cart) >= appliedDiscount.min_order_amount

\* C15: with a fixed discount applied and the subtotal at or above its minimum
\* order amount, the discount amount is the smaller of the discount's value and
\* the subtotal, so it never exceeds the subtotal and the total is at least
\* the tax.
C15_FixedDiscountCapped ==
    (Eligible /\ appliedDiscount.discount_type = "fixed") =>
        /\ Totals.discountAmount =
              IF appliedDiscount.discount_value <= SumPrices(cart)
              THEN appliedDiscount.discount_value * 100
              ELSE SumPrices(cart) * 100
        /\ Totals.discountAmount <= Totals.subtotal
        /\ Totals.total = Totals.subtotal + Totals.tax - Totals.discountAmount
        /\ Totals.total >= Totals.tax

\* a fixed discount of 50.00 on a subtotal of 25.50 takes off 25.50
C15_Witness ==
    /\ event.op = "summary"
    /\ appliedDiscount.discount_type = "fixed"
    /\ appliedDiscount.discount_value = 5000
    /\ SumPrices(cart) = 2550
    /\ Totals.discountAmount = 255000
    /\ Totals.total = Totals.tax

C17_BelowMinimum ==
    (appliedDiscount # NoDiscount /\ SumPrices(cart) < appliedDiscount.min_order_amount) =>
        /\ Totals.discountAmount = 0
        /\ Totals.total = Totals.subtotal + Totals.tax

\* the minus button lowered a line that stays in the cart, the subtotal is now
\* below the minimum order amount of the discount, which is still applied
C17_Witness ==
    /\ event.op = "minus"
    /\ event.n >= 1
    /\ HasLine(cart, event.pid)
    /\ appliedDiscount \in Discounts
    /\ SumPrices(cart) < appliedDiscount.min_order_amount
    /\ SumPrices(cart) + Catalog[event.pid].price >= appliedDiscount.min_order_amount
    /\ Totals.discountAmount = 0

\* C18: for every ledger and applied discount the total is subtotal + tax -
\* discount amount, or 0 when that is negative; it is never negative.
C18_TotalFloored ==
    /\ Totals.total >= 0
    /\ Totals.total =
          IF Totals.subtotal + Totals.tax - Totals.discountAmount >= 0
          THEN Totals.subtotal + Totals.tax - Totals.discountAmount
          ELSE 0

\* a percentage of 150 on a cart with lines: subtotal + tax - discount amount
\* is negative and the total shown is 0
C18_Witness ==
    /\ event.op = "summary"
    /\ appliedDiscount.discount_type = "percentage"
    /\ appliedDiscount.discount_value > 100
    /\ Totals.subtotal + Totals.tax - Totals.discountAmount < 0
    /\ Totals.total = 0
    /\ event.data.total = 0

-----------------------------------------------------------------------------
(* Properties of the store operations *)

\* the quantities of the first n lines of c, added up
RECURSIVE QuantitiesUpTo(_, _)
QuantitiesUpTo(c, n) ==
    IF n = 0 THEN 0 ELSE QuantitiesUpTo(c, n - 1) + c[n].quantity

\* C19: getCartItemCount() is the sum of the quantities of all lines, 0 for an
\* empty cart, and the badge count of the tab bar equals it.
C19_ItemCount ==
    /\ getCartItemCount(cart) = QuantitiesUpTo(cart, Len(cart))
    /\ cart = <<>> => getCartItemCount(cart) = 0
    /\ cartItemCount = getCartItemCount(cart)

\* two lines whose quantities add up to more than the number of lines
C19_Witness ==
    /\ Len(cart) = 2
    /\ cart[1].quantity + cart[2].quantity > 2
    /\ cartItemCount = cart[1].quantity + cart[2].quantity

\* C20: removeFromCart(productId) removes exactly the line of productId when
\* there is one, the other lines keeping their products, quantities and order;
\* when there is none the ledger stays as it is; the applied discount is not
\* touched and no alert is raised.
C20_RemoveFromCart ==
    [][event'.op = "removeFromCart" =>
        LET pid == event'.pid
        IN  /\ IF HasLine(cart, pid)
               THEN /\ Len(cart') = Len(cart) - 1
                    /\ ~HasLine(cart', pid)
                    /\ \A i \in 1..Len(cart') :
                          cart'[i] = IF i < LineOf(cart, pid) THEN cart[i] ELSE cart[i + 1]
               ELSE cart' = cart
            /\ appliedDiscount' = appliedDiscount
            /\ event'.alert = NoAlert
    ]_vars

\* removeFromCart was called for a product that has no line, on a ledger of two
\* lines with a discount applied
C20_Witness ==
    /\ event.op = "removeFromCart"
    /\ event.n = Len(cart)
    /\ Len(cart) = 2
    /\ ~HasLine(cart, event.pid)
    /\ appliedDiscount # NoDiscount

-----------------------------------------------------------------------------
(* Properties of the localized text resolver *)

\* the fallback order after the active language and en
FallbackOrder == <<"nl", "fr", "tr">>

\* C21: getLocalizedText returns the text of the active language if non-empty,
\* else the en text if non-empty, else the first non-empty of nl, fr, tr in
\* that order, else the empty string; the result is always a defined string.
C21_Resolve ==
    event.op = "getLocalizedText" =>
        LET text == event.data[1]
            lang == event.data[2]
            result == event.data[3]
        IN  /\ result # Undefined
            /\ result \in {""} \cup {text[k] : k \in Languages}
            /\ NonEmpty(text[lang]) => result = text[lang]
            /\ (~NonEmpty(text[lang]) /\ NonEmpty(text["en"])) => result = text["en"]
            /\ (~NonEmpty(text[lang]) /\ ~NonEmpty(text["en"])) =>
                  /\ \A i \in 1..Len(FallbackOrder) :
                        (/\ NonEmpty(text[FallbackOrder[i]])
                         /\ \A j \in 1..(i - 1) : ~NonEmpty(text[FallbackOrder[j]]))
                        => result = text[FallbackOrder[i]]
                  /\ (\A i \in 1..Len(FallbackOrder) : ~NonEmpty(text[FallbackOrder[i]]))
                        => result = ""

\* resolve({fr: "Marteau"}, "nl") returned "Marteau"
C21_Witness ==
    /\ event.op = "getLocalizedText"
    /\ event.data[2] = "nl"
    /\ event.data[1]["fr"] = "Marteau"
    /\ \A k \in Languages \ {"fr"} : event.data[1][k] = Undefined
    /\ event.data[3] = "Marteau"

-----------------------------------------------------------------------------
(* Properties of the product snapshot *)

\* C22: a line keeps the product, and with it the price, it got when the
\* product was first added: no store operation changes the product of a line
\* that stays, and a re-add of the same id at another price raises the
\* subtotal by the added quantity at the line's own price.
C22_PriceSnapshot ==
    [][/\ \A i \in 1..Len(cart') :
            HasLine(cart, cart'[i].product.id) =>
                cart'[i].product = cart[LineOf(cart, cart'[i].product.id)].product
       /\ (event'.op = "addToCart" /\ HasLine(cart, event'.pid)) =>
            SumPrices(cart') =
                SumPrices(cart)
                + event'.n * cart[LineOf(cart, event'.pid)].product.price
    ]_vars

\* p1 was re-added at 12.00 while its line holds the 10.00 snapshot: the line
\* still has price 10.00
C22_Witness ==
    /\ event.op = "addToCart"
    /\ event.data # <<>>
    /\ event.data[1].price = 1200
    /\ HasLine(cart, event.pid)
    /\ cart[LineOf(cart, event.pid)].product.price = 1000
    /\ cart[LineOf(cart, event.pid)].quantity > event.n

-----------------------------------------------------------------------------
(* Properties of the summary *)

-----------------------------------------------------------------------------
(* Properties of the calls outstanding *)

\* a call issued by the checkout screen as it is mounted now is outstanding
Waiting ==
    \/ \E i \in 1..Len(validations) : validations[i].live
    \/ \E i \in 1..Len(orders) : orders[i].live

\* C23: a step taken on the checkout screen while a call of that screen is
\* outstanding, and in which no call resolves, changes neither the ledger nor
\* the applied discount.
C23_FrozenWhileWaiting ==
    [][(/\ screen = "checkout" /\ screen' = "checkout"
        /\ Waiting
        /\ Len(validations') >= Len(validations)
        /\ Len(orders') >= Len(orders)
        /\ \A i \in 1..Len(orders) : orders'[i].step = orders[i].step)
            => UNCHANGED storeVars
    ]_vars

\* C25: the place-order press that follows a submission whose createOrder
\* succeeded and whose mock payment failed does not issue createOrder for
\* the cart that was not cleared.
C25_NoSecondOrder ==
    [][~(/\ event.op = "orderFailed"
         /\ event.pid = "processMockPayment"
         /\ screen = "checkout"
         /\ event'.op = "createOrder"
         /\ cart' = cart)
    ]_vars

\* C26: whenever a busy flag of the checkout screen is set, it is reset later:
\* neither the apply action nor the place-order action stays locked.
C26_BusyFlagsReset ==
    /\ loading ~> ~loading
    /\ applyingDiscount ~> ~applyingDiscount

\* both attempts of one mounted screen have failed and both flags are reset
C26_Witness ==
    /\ screen = "checkout"
    /\ event.op = "orderFailed"
    /\ ~loading
    /\ ~applyingDiscount
    /\ orders = <<>>
    /\ validations = <<>>
    /\ discountCode # <<>>

-----------------------------------------------------------------------------
(* Properties of the product detail screen *)

\* the product cards and the detail screen over a catalog with a product that
\* is out of stock
DetailNext ==
    \/ \E pid \in DOMAIN Catalog : ProductCard_handleAddToCart(pid)
    \/ \E pid \in DOMAIN Catalog : OpenProduct(pid)
    \/ loadProduct
    \/ QuantityMinus
    \/ QuantityPlus
    \/ ProductDetail_handleAddToCart
    \/ ProductBack
    \/ CartScreen_clear

DetailSpec == Init /\ [][DetailNext]_vars

\* C28: the quantity selected on the detail screen is at least 1, is at most
\* the stock of a product in stock and stays 1 for one out of stock; a step
\* that added to the cart added at least one unit of a product in stock.
C28_QuantityWithinStock ==
    /\ quantity >= 1
    /\ ActionBar => quantity \in 1..product.stock
    /\ (screen = "product" /\ ~ActionBar) => quantity = 1
    /\ event.op = "addToCart" =>
            /\ event.n >= 1
            /\ Catalog[event.pid].stock > 0
            /\ event.n <= Catalog[event.pid].stock

\* the detail screen of p1 with the whole stock selected, p1 already in the cart
C28_Witness ==
    /\ ActionBar
    /\ product.id = "p1"
    /\ quantity = product.stock
    /\ quantity > 1
    /\ HasLine(cart, "p1")

\* the detail screen of a product out of stock: loaded, no action bar
C28_OutOfStock ==
    /\ screen = "product"
    /\ product # NoProduct
    /\ product.stock = 0

-----------------------------------------------------------------------------
(* The checkout screen mounted over a range of ledgers: the form, the payment *)
(* method and the submission                                                  *)

PlaceOrderInit ==
    /\ cart \in Ledgers \ {<<>>}
    /\ appliedDiscount = NoDiscount
    /\ screen = "checkout"
    /\ id = Null
    /\ product = NoProduct
    /\ quantity = 1
    /\ loading = FALSE
    /\ applyingDiscount = FALSE
    /\ discountCode = <<>>
    /\ selectedPayment = "mock"
    /\ customer = InitialCustomer
    /\ validations = <<>>
    /\ orders = <<>>
    /\ SignedOut
    /\ AdminUnmounted
    /\ CategoriesUnmounted
    /\ event = Quiet

PlaceOrderNext ==
    \/ \E m \in PaymentChoices : setSelectedPayment(m)
    \/ \E f \in CustomerFields : \E text \in TextsOf(f) : setCustomer(f, text)
    \/ handlePlaceOrder
    \/ \E i \in 1..Len(orders) : CreateOrderResolved(i)
    \/ \E i \in 1..Len(orders) : CreateOrderRejected(i)
    \/ \E i \in 1..Len(orders) : MockPaymentResolved(i)
    \/ \E i \in 1..Len(orders) : MockPaymentRejected(i)

PlaceOrderSpec == PlaceOrderInit /\ [][PlaceOrderNext]_vars

\* C29: the request of a createOrder call has one item per line of the
\* ledger, in the ledger's order, with the line's product id and quantity
\* (at least 1) and nothing else, the customer data as entered and the
\* payment method selected.
C29_OrderPayload ==
    event.op = "createOrder" =>
        /\ Len(event.data.items) = Len(cart)
        /\ \A i \in 1..Len(cart) :
                /\ event.data.items[i] = [product_id |-> cart[i].product.id,
                                          quantity |-> cart[i].quantity]
                /\ event.data.items[i].quantity >= 1
        /\ event.data.customer = customer
        /\ event.data.payment_method = selectedPayment
        /\ validateForm(event.data.customer) = Ok

\* an order of three lines, the first with two units and the last with one,
\* was sent with the card method
C29_Witness ==
    /\ event.op = "createOrder"
    /\ loading
    /\ Len(cart) = 3
    /\ cart[1].quantity = 2
    /\ cart[3].quantity = 1
    /\ cart[1].product.id # cart[3].product.id
    /\ event.data.items[1].quantity = 2
    /\ event.data.payment_method = "card"

-----------------------------------------------------------------------------
(* Admin layout: the guard on the auth store                                 *)

\* the screens of the Stack navigator
AdminScreens ==
    {"index", "products", "categories", "orders", "customers", "discounts",
     "users", "settings", "bulk-email"}

\* mutant: the render checks the login only
AdminLayout_anyUser(l, a, d) ==
    IF l THEN "loading" ELSE IF ~a THEN "redirecting" ELSE "stack"

\* what a render of AdminLayout returns: the loading view, the redirecting
\* view or the Stack of admin screens
AdminLayout(l, a, d) ==
    IF l THEN "loading" ELSE IF ~a \/ ~d THEN "redirecting" ELSE "stack"

\* the route is replaced or popped: the layout unmounts
AdminUnmount ==
    /\ rendered' = "none"
    /\ stack' = <<>>
    /\ effect' = FALSE

\* the auth store changes (loadUser, login, logout): the mounted layout
\* renders again and, a dependency having changed, its effect is scheduled
AuthStoreSet(l, a, d) ==
    /\ <<l, a, d>> # <<isLoading, isAuthenticated, isAdmin>>
    /\ isLoading' = l
    /\ isAuthenticated' = a
    /\ isAdmin' = d
    /\ IF screen = "admin"
       THEN rendered' = AdminLayout(l, a, d) /\ effect' = TRUE
       ELSE UNCHANGED <<rendered, effect>>
    /\ event' = Ev("authStore", Null, 0, NoAlert)
    /\ UNCHANGED <<screen, stack, shopVars, categoriesVars>>

\* the layout mounts on route s: first render, effect scheduled
AdminMount(s) ==
    /\ screen' = "admin"
    /\ stack' = <<s>>
    /\ rendered' = AdminLayout(isLoading, isAuthenticated, isAdmin)
    /\ effect' = TRUE
    /\ UNCHANGED <<authVars, shopVars, categoriesVars>>

\* account screen: the admin section, shown to an authenticated admin, pushes
\* /admin or /admin/settings
Account_openAdmin(s) ==
    /\ screen = "tabs"
    /\ ~isLoading /\ isAuthenticated /\ isAdmin
    /\ s \in {"index", "settings"}
    /\ AdminMount(s)
    /\ event' = Ev("push", s, 0, NoAlert)

\* an admin route is opened by its URL, whatever the auth store holds
OpenAdminLink(s) ==
    /\ screen = "tabs"
    /\ AdminMount(s)
    /\ event' = Ev("link", s, 0, NoAlert)

\* useEffect of AdminLayout
AdminEffect ==
    /\ screen = "admin"
    /\ effect
    /\ IF ~isLoading /\ ~isAuthenticated
       THEN /\ screen' = "login"
            /\ AdminUnmount
            /\ event' = Ev("replace", "/auth/login", 0, NoAlert)
       ELSE IF ~isLoading /\ ~isAdmin
       THEN /\ screen' = "tabs"
            /\ AdminUnmount
            /\ event' = Ev("replace", "/(tabs)", 0, NoAlert)
       ELSE /\ effect' = FALSE
            /\ event' = Quiet
            /\ UNCHANGED <<screen, rendered, stack>>
    /\ UNCHANGED <<authVars, shopVars, categoriesVars>>

\* admin index: router.push of an admin route (no other admin screen pushes)
AdminPush(s) ==
    /\ screen = "admin"
    /\ rendered = "stack"
    /\ stack[Len(stack)] = "index"
    /\ stack' = Append(stack, s)
    /\ event' = Ev("push", s, 0, NoAlert)
    /\ UNCHANGED <<screen, authVars, rendered, effect, shopVars, categoriesVars>>

\* header back button of the Stack
AdminBack ==
    /\ screen = "admin"
    /\ rendered = "stack"
    /\ IF Len(stack) > 1
       THEN /\ stack' = SubSeq(stack, 1, Len(stack) - 1)
            /\ UNCHANGED <<screen, rendered, effect>>
       ELSE /\ screen' = "tabs"
            /\ AdminUnmount
    /\ event' = Ev("back", Null, 0, NoAlert)
    /\ UNCHANGED <<authVars, shopVars, categoriesVars>>

\* the login route is left for the storefront
LeaveLogin ==
    /\ screen = "login"
    /\ screen' = "tabs"
    /\ event' = Quiet
    /\ UNCHANGED <<adminVars, shopVars, categoriesVars>>

AdminNext ==
    \/ \E l, a, d \in BOOLEAN : AuthStoreSet(l, a, d)
    \/ \E s \in AdminScreens : Account_openAdmin(s)
    \/ \E s \in AdminScreens : OpenAdminLink(s)
    \/ AdminEffect
    \/ \E s \in AdminScreens \ {"index"} : AdminPush(s)
    \/ AdminBack
    \/ LeaveLogin

AdminSpec == Init /\ [][AdminNext]_vars

\* C27: the Stack of admin screens is what the layout rendered only while the
\* auth store has finished loading and holds an authenticated admin; with
\* loading finished and the user not an authenticated admin, the mounted
\* layout shows the redirecting view and its effect is due; the effect
\* replaces the route by the login route for an unauthenticated user and by
\* the storefront tabs for an authenticated non-admin, and the layout is gone.
C27_AdminGuard ==
    /\ rendered = "stack" =>
            /\ screen = "admin"
            /\ ~isLoading /\ isAuthenticated /\ isAdmin
    /\ (screen = "admin" /\ ~isLoading /\ ~(isAuthenticated /\ isAdmin)) =>
            /\ rendered = "redirecting"
            /\ effect
    /\ (screen = "admin" /\ isLoading) => rendered = "loading"
    /\ event.op = "replace" =>
            /\ rendered = "none"
            /\ ~isLoading
            /\ event.pid = (IF isAuthenticated THEN "/(tabs)" ELSE "/auth/login")
            /\ screen = (IF isAuthenticated THEN "tabs" ELSE "login")
            /\ isAuthenticated => ~isAdmin
    /\ screen \in {"login", "tabs"} => rendered = "none"

\* an authenticated user who is not an admin was sent to the storefront tabs
C27_Witness ==
    /\ event.op = "replace"
    /\ event.pid = "/(tabs)"
    /\ screen = "tabs"
    /\ isAuthenticated
    /\ ~isAdmin
    /\ rendered = "none"

\* an unauthenticated user was sent to the login route
C27_Login ==
    /\ event.op = "replace"
    /\ event.pid = "/auth/login"
    /\ screen = "login"

-----------------------------------------------------------------------------
(* Categories screen: loadData                                               *)

\* getCategories(true): the ids of the active categories
CategoryList == <<"c1", "c2">>

CategoryIds == {CategoryList[i] : i \in 1..Len(CategoryList)}

\* texts typed in the search input
SearchTexts == {<<>>, <<"a">>}

\* the active products of the catalog API, with their category and name
Listing ==
    << [id |-> "p0", category_id |-> "c1", name |-> <<"a">>],
       [id |-> "p1", category_id |-> "c1", name |-> <<"b">>],
       [id |-> "p2", category_id |-> "c2", name |-> <<"a", "b">>] >>

\* the product matches the filter; a null category or an empty search text is
\* sent as undefined and filters nothing
Matches(p, category_id, search) ==
    /\ category_id = Null \/ p.category_id = category_id
    /\ search = <<>> \/ includes(p.name, search[1])

\* getProducts({active_only: true, category_id, search}) as the API answers it
getProducts(category_id, search) ==
    SelectSeq(Listing, LAMBDA p : Matches(p, category_id, search))

Pending(calls) == SelectSeq(calls, LAMBDA f : f.status = "pending")

\* loadData() is called with the filter of the render it closes over: the
\* request is sent.  The calls are kept in the order they were made; a call
\* that has settled is kept only while it is the latest one made.
loadData(category_id, search) ==
    /\ Len(Pending(fetches)) < MaxFetches
    /\ fetches' = Append(Pending(fetches),
                         [category_id |-> category_id, search |-> search,
                          status |-> "pending"])

\* call i has settled
Settled(i, status) ==
    IF i = Len(fetches)
    THEN [fetches EXCEPT ![i].status = status]
    ELSE RemoveAt(fetches, i)

\* the screen mounts with the route's parameters; useEffect calls loadData
CategoriesInit ==
    /\ cart = <<>>
    /\ appliedDiscount = NoDiscount
    /\ screen = "tabs"
    /\ id = Null
    /\ product = NoProduct
    /\ quantity = 1
    /\ loading = FALSE
    /\ applyingDiscount = FALSE
    /\ discountCode = <<>>
    /\ selectedPayment = "mock"
    /\ customer = InitialCustomer
    /\ validations = <<>>
    /\ orders = <<>>
    /\ SignedOut
    /\ AdminUnmounted
    /\ categories = <<>>
    /\ products = <<>>
    /\ categoriesLoading = TRUE
    /\ refreshing = FALSE
    /\ searchQuery \in SearchTexts
    /\ selectedCategory \in CategoryIds \cup {Null}
    /\ fetches = <<[category_id |-> selectedCategory, search |-> searchQuery,
                    status |-> "pending"]>>
    /\ event = Quiet

\* the list and its controls are rendered once loading is false
CategoriesShown == screen = "tabs" /\ ~categoriesLoading

\* a category chip is pressed: the selected one is deselected; the effect
\* runs loadData with the new filter
handleCategorySelect(categoryId) ==
    /\ CategoriesShown
    /\ categoryId = Null \/ \E i \in 1..Len(categories) : categories[i] = categoryId
    /\ selectedCategory' = IF categoryId = selectedCategory THEN Null ELSE categoryId
    /\ selectedCategory' # selectedCategory
    /\ loadData(selectedCategory', searchQuery)
    /\ event' = Ev("handleCategorySelect", categoryId, 0, NoAlert)
    /\ UNCHANGED <<categories, products, categoriesLoading, refreshing, searchQuery>>
    /\ UNCHANGED <<screen, shopVars, adminVars>>

\* the search text is edited: the effect runs loadData with the new filter
handleSearch(text) ==
    /\ CategoriesShown
    /\ text # searchQuery
    /\ searchQuery' = text
    /\ loadData(selectedCategory, text)
    /\ event' = [Ev("handleSearch", Null, 0, NoAlert) EXCEPT !.data = text]
    /\ UNCHANGED <<categories, products, categoriesLoading, refreshing, selectedCategory>>
    /\ UNCHANGED <<screen, shopVars, adminVars>>

\* pull to refresh
handleRefresh ==
    /\ CategoriesShown
    /\ refreshing' = TRUE
    /\ loadData(selectedCategory, searchQuery)
    /\ event' = Ev("handleRefresh", Null, 0, NoAlert)
    /\ UNCHANGED <<categories, products, categoriesLoading, searchQuery, selectedCategory>>
    /\ UNCHANGED <<screen, shopVars, adminVars>>

\* Promise.all resolved: setCategories, setProducts; finally both flags off
FetchResolved(i) ==
    /\ i \in 1..Len(fetches)
    /\ fetches[i].status = "pending"
    /\ categories' = CategoryList
    /\ products' = getProducts(fetches[i].category_id, fetches[i].search)
    /\ categoriesLoading' = FALSE
    /\ refreshing' = FALSE
    /\ fetches' = Settled(i, "resolved")
    /\ event' = [Ev("fetchResolved", fetches[i].category_id, 0, NoAlert)
                    EXCEPT !.data = fetches[i].search]
    /\ UNCHANGED <<searchQuery, selectedCategory>>
    /\ UNCHANGED <<screen, shopVars, adminVars>>

\* Promise.all rejected: console.error; finally both flags off
FetchRejected(i) ==
    /\ i \in 1..Len(fetches)
    /\ fetches[i].status = "pending"
    /\ categoriesLoading' = FALSE
    /\ refreshing' = FALSE
    /\ fetches' = Settled(i, "rejected")
    /\ event' = [Ev("fetchRejected", fetches[i].category_id, 0, NoAlert)
                    EXCEPT !.data = fetches[i].search]
    /\ UNCHANGED <<categories, products, searchQuery, selectedCategory>>
    /\ UNCHANGED <<screen, shopVars, adminVars>>

CategoriesNext ==
    \/ \E c \in CategoryIds \cup {Null} : handleCategorySelect(c)
    \/ \E text \in SearchTexts : handleSearch(text)
    \/ handleRefresh
    \/ \E i \in 1..Len(fetches) : FetchResolved(i)
    \/ \E i \in 1..Len(fetches) : FetchRejected(i)

CategoriesSpec == CategoriesInit /\ [][CategoriesNext]_vars

\* every loadData call has settled and the latest one made was answered
AllAnswered ==
    /\ fetches # <<>>
    /\ Pending(fetches) = <<>>
    /\ fetches[Len(fetches)].status = "resolved"

\* the latest loadData call carries the filter that is selected
LatestCallHasFilter ==
    fetches # <<>> =>
        /\ fetches[Len(fetches)].category_id = selectedCategory
        /\ fetches[Len(fetches)].search = searchQuery

\* C30: once no loadData call is pending, the latest one having been answered,
\* the product list shown is the API's answer to the selected filter.
C30_LatestFilterShown ==
    AllAnswered => products = getProducts(selectedCategory, searchQuery)

====
